---- MODULE Spec2Model ----
(***************************************************************************)
(* Model of mypyli/picrust.py: TraitTableEntry (add_trait, correlation)    *)
(* and TraitTableManager (__init__, __iter__, get_ordered_traits,          *)
(* get_subset, write_entry).                                               *)
(*                                                                         *)
(* A Python str is a sequence of one-character strings; a file is the      *)
(* sequence of its lines, each line carrying its terminating "\n" as the   *)
(* file iterator returns it.  A trait value is float or str, as add_trait  *)
(* stores it.                                                              *)
(***************************************************************************)
EXTENDS Integers, Sequences, FiniteSets, TLC

VARIABLES
    entries,        \* TraitTableEntry.traits of the two entries "A" and "B"
    last,           \* outcome of the last add_trait / correlation call
    adds,           \* number of add_trait calls made so far
    file,           \* lines of trait_table_f
    self_traits,    \* TraitTableManager.traits
    cur,            \* per pass: number of lines read from the pass's own handle IN
    lname,          \* per pass: the generator's local `name`
    lvals,          \* per pass: the generator's local `trait_values`
    seen,           \* per pass: entries yielded by __iter__
    out,            \* per pass: entries yielded to the consumer
    status,         \* per pass: "running", "done" or the exception that ended it
    found,          \* per pass: get_subset's local `found`
    pend,           \* per pass: <<entry>> while get_subset is suspended at its first
                    \* yield (line 155) with that entry, <<>> otherwise
    kind,           \* per pass: "iter" (for entry in table) or "subset" (get_subset)
    subset_names,   \* get_subset's argument
    remove,         \* get_subset's argument
    metadata_last,  \* get_ordered_traits' argument
    ordered,        \* get_ordered_traits' return value (or the exception)
    entry,          \* the entry handed to write_entry
    written         \* number of rows write_entry has written to the file

entryVars == <<entries, last, adds>>
tableVars == <<file, self_traits>>
passVars  == <<cur, lname, lvals, seen, out, status, found, pend>>
argVars   == <<kind, subset_names, remove>>
sortVars  == <<metadata_last, ordered>>
writeVars == <<entry, written>>
vars == <<entries, last, adds, file, self_traits, cur, lname, lvals, seen, out,
          status, found, pend, kind, subset_names, remove, metadata_last, ordered,
          entry, written>>

(***************************************************************************)
(* Bounds of the model.                                                    *)
(***************************************************************************)
MaxAdds   == 4      \* add_trait calls made on the entries of SpecEntry
MaxLines  == 3      \* data lines of a table file
MaxSubset == 2      \* length of subset_names
MaxTraits == 3      \* trait columns handed to get_ordered_traits
MaxCands  == 2      \* length of the traits list handed to correlation

(***************************************************************************)
(* str operations.                                                         *)
(***************************************************************************)
\* The characters str.isspace() holds for that can be written in a module:
\* space, \t, \n, \r, \f, and (written as the characters themselves) U+000B,
\* U+001C..U+001F, U+0085, U+00A0 and U+1680.  A module holds the characters
\* up to U+00FF but U+0060, and of the others those whose code point ends in a
\* byte from 80 to FF: the other whitespace (U+2000..U+200A, U+2028, U+2029,
\* U+202F, U+205F, U+3000) cannot be written.
Whitespace == {" ", "\t", "\n", "\r", "\f", "", "", "", "", "", "", " ", " "}

Lower == <<"a", "b", "c", "d", "e", "f", "g", "h", "i", "j", "k", "l",
           "m", "n", "o", "p", "q", "r", "s", "t", "u", "v", "w", "x", "y", "z">>

Upper == <<"A", "B", "C", "D", "E", "F", "G", "H", "I", "J", "K", "L",
           "M", "N", "O", "P", "Q", "R", "S", "T", "U", "V", "W", "X", "Y", "Z">>

\* c.lower() for an ASCII character
lower(c) ==
    IF \E i \in 1..Len(Upper) : Upper[i] = c
    THEN Lower[CHOOSE i \in 1..Len(Upper) : Upper[i] = c]
    ELSE c

\* s.lower() for an ASCII str
lowered(s) == [i \in 1..Len(s) |-> lower(s[i])]

\* The decimal digits int(char) and float(value) read (category Nd) that can be
\* written in a module, a row for each script, from its zero to its nine:
\* ASCII, Extended Arabic-Indic, Nko, Bengali, Gujarati,
\* Tamil, Kannada, Sinhala Lith, Lao, Myanmar Shan,
\* Khmer, New Tai Lue, Tai Tham Hora, Tai Tham Tham, Sundanese,
\* Saurashtra, Javanese, Myanmar Tai Laing, Meetei Mayek.
\* The digits of the other scripts (U+0660.., U+0966.., U+FF10.. and so on)
\* cannot be written.
DigitRows ==
   <<
      <<"0", "1", "2", "3", "4", "5", "6", "7", "8", "9">>,
      <<"۰", "۱", "۲", "۳", "۴", "۵", "۶", "۷", "۸", "۹">>,
      <<"߀", "߁", "߂", "߃", "߄", "߅", "߆", "߇", "߈", "߉">>,
      <<"০", "১", "২", "৩", "৪", "৫", "৬", "৭", "৮", "৯">>,
      <<"૦", "૧", "૨", "૩", "૪", "૫", "૬", "૭", "૮", "૯">>,
      <<"௦", "௧", "௨", "௩", "௪", "௫", "௬", "௭", "௮", "௯">>,
      <<"೦", "೧", "೨", "೩", "೪", "೫", "೬", "೭", "೮", "೯">>,
      <<"෦", "෧", "෨", "෩", "෪", "෫", "෬", "෭", "෮", "෯">>,
      <<"໐", "໑", "໒", "໓", "໔", "໕", "໖", "໗", "໘", "໙">>,
      <<"႐", "႑", "႒", "႓", "႔", "႕", "႖", "႗", "႘", "႙">>,
      <<"០", "១", "២", "៣", "៤", "៥", "៦", "៧", "៨", "៩">>,
      <<"᧐", "᧑", "᧒", "᧓", "᧔", "᧕", "᧖", "᧗", "᧘", "᧙">>,
      <<"᪀", "᪁", "᪂", "᪃", "᪄", "᪅", "᪆", "᪇", "᪈", "᪉">>,
      <<"᪐", "᪑", "᪒", "᪓", "᪔", "᪕", "᪖", "᪗", "᪘", "᪙">>,
      <<"᮰", "᮱", "᮲", "᮳", "᮴", "᮵", "᮶", "᮷", "᮸", "᮹">>,
      <<"꣐", "꣑", "꣒", "꣓", "꣔", "꣕", "꣖", "꣗", "꣘", "꣙">>,
      <<"꧐", "꧑", "꧒", "꧓", "꧔", "꧕", "꧖", "꧗", "꧘", "꧙">>,
      <<"꧰", "꧱", "꧲", "꧳", "꧴", "꧵", "꧶", "꧷", "꧸", "꧹">>,
      <<"꯰", "꯱", "꯲", "꯳", "꯴", "꯵", "꯶", "꯷", "꯸", "꯹">>
   >>

\* the code point of the zero of each row
DigitBase == <<48, 1776, 1984, 2534, 2790, 3046, 3302, 3558, 3792, 4240, 6112, 6608, 6784, 6800, 7088, 43216, 43472, 43504, 44016>>

DigitVal ==
    [c \in {DigitRows[r][i] : r \in 1..Len(DigitRows), i \in 1..10} |->
        CHOOSE v \in 0..9 : \E r \in 1..Len(DigitRows) : DigitRows[r][v + 1] = c]

DigitChr == <<"0", "1", "2", "3", "4", "5", "6", "7", "8", "9">>

IsDigit(c) == c \in DOMAIN DigitVal

RECURSIVE rstrip(_)
rstrip(s) ==
    IF s = <<>> THEN s
    ELSE IF s[Len(s)] \in Whitespace THEN rstrip(SubSeq(s, 1, Len(s) - 1))
    ELSE s

\* index of the first occurrence of sep in s, 0 when there is none
IndexOf(s, sep) ==
    IF \E i \in 1..Len(s) : s[i] = sep
    THEN CHOOSE i \in 1..Len(s) : s[i] = sep /\ \A j \in 1..(i - 1) : s[j] # sep
    ELSE 0

\* s.split(sep)
RECURSIVE split(_, _)
split(s, sep) ==
    LET i == IndexOf(s, sep) IN
    IF i = 0 THEN <<s>>
    ELSE <<SubSeq(s, 1, i - 1)>> \o split(SubSeq(s, i + 1, Len(s)), sep)

\* s.split(sep, 1)
split1(s, sep) ==
    LET i == IndexOf(s, sep) IN
    IF i = 0 THEN <<s>>
    ELSE <<SubSeq(s, 1, i - 1), SubSeq(s, i + 1, Len(s))>>

\* sep.join(parts)
RECURSIVE join(_, _)
join(sep, parts) ==
    IF parts = <<>> THEN <<>>
    ELSE IF Len(parts) = 1 THEN parts[1]
    ELSE parts[1] \o <<sep>> \o join(sep, Tail(parts))

\* s.startswith(p)
startswith(s, p) == Len(s) >= Len(p) /\ SubSeq(s, 1, Len(p)) = p

RECURSIVE DigitsToNat(_)
DigitsToNat(ds) ==
    IF ds = <<>> THEN 0
    ELSE 10 * DigitsToNat(SubSeq(ds, 1, Len(ds) - 1)) + DigitVal[ds[Len(ds)]]

RECURSIVE NatToDigits(_)
NatToDigits(n) ==
    IF n < 10 THEN <<DigitChr[n + 1]>>
    ELSE NatToDigits(n \div 10) \o <<DigitChr[(n % 10) + 1]>>

RECURSIVE DropTrailingZeros(_)
DropTrailingZeros(ds) ==
    IF ds # <<>> /\ ds[Len(ds)] = "0"
    THEN DropTrailingZeros(SubSeq(ds, 1, Len(ds) - 1))
    ELSE ds

(***************************************************************************)
(* Trait values: what add_trait stores, a float or a str.                  *)
(* A finite float is its sign, its significant decimal digits (no leading  *)
(* or trailing zero; none for zero) and its decimal exponent: the value is *)
(* d1.d2d3... * 10^exp.  A double holds SigDigits decimal digits exactly,  *)
(* so two literals of that many digits are the same float exactly when the *)
(* records are equal, and repr() gives these digits back.  Equality of     *)
(* records differs from == of floats in two cases: -0.0 == 0.0, nan # nan. *)
(***************************************************************************)
SigDigits == 15

FloatVal(neg, dig, exp) ==
    [tag |-> "float", kind |-> "finite", neg |-> neg, dig |-> dig, exp |-> exp,
     s |-> <<>>]
InfVal(neg) ==
    [tag |-> "float", kind |-> "inf", neg |-> neg, dig |-> <<>>, exp |-> 0,
     s |-> <<>>]
NanVal ==
    [tag |-> "float", kind |-> "nan", neg |-> FALSE, dig |-> <<>>, exp |-> 0,
     s |-> <<>>]
StrVal(s) ==
    [tag |-> "str", kind |-> "str", neg |-> FALSE, dig |-> <<>>, exp |-> 0,
     s |-> s]

AllDigits(s) == \A i \in 1..Len(s) : IsDigit(s[i])

RECURSIVE DropLeadingZeros(_)
DropLeadingZeros(ds) ==
    IF ds # <<>> /\ ds[1] = "0" THEN DropLeadingZeros(Tail(ds)) ELSE ds

NotUnderscore(c) == c # "_"

\* an underscore of a numeric literal must stand between two digits
UnderscoresOk(t) ==
    \A i \in 1..Len(t) :
        t[i] = "_" => (i > 1 /\ i < Len(t) /\ IsDigit(t[i - 1]) /\ IsDigit(t[i + 1]))

\* x <= y for digit sequences read as fractions 0.x and 0.y
RECURSIVE FracLE(_, _)
FracLE(x, y) ==
    IF x = <<>> THEN TRUE
    ELSE IF y = <<>> THEN FALSE
    ELSE IF x[1] # y[1] THEN DigitVal[x[1]] < DigitVal[y[1]]
    ELSE FracLE(Tail(x), Tail(y))

\* the largest double is 1.7976931348623157e308; a literal of at most SigDigits
\* digits and exponent 308 is finite up to these digits
MaxDigits == <<"1", "7", "9", "7", "6", "9", "3", "1", "3", "4", "8", "6", "2", "3", "1">>

\* The whitespace float() ignores around a literal: of Whitespace, U+001C..U+001F
\* are not ignored (float('\x1c1') raises ValueError).
FloatSpace == Whitespace \ {"", "", "", ""}

RECURSIVE strip(_)
strip(s) ==
    IF s = <<>> THEN s
    ELSE IF s[1] \in FloatSpace THEN strip(Tail(s))
    ELSE IF s[Len(s)] \in FloatSpace THEN strip(SubSeq(s, 1, Len(s) - 1))
    ELSE s

\* float() reads the decimal digits of every script as 0..9
decimal(s) ==
    [i \in 1..Len(s) |-> IF IsDigit(s[i]) THEN DigitChr[DigitVal[s[i]] + 1] ELSE s[i]]

\* The value of the literal with integer digits ipt, fraction digits frt and
\* exponent digits edig (eneg: the exponent has a minus sign).  An exponent of
\* five digits or more (big) overflows or underflows whatever the digits.  The
\* float() of a literal of more than SigDigits significant digits, or of one in
\* the subnormal range (below 1e-307), needs the binary rounding of a double
\* and is not defined here.
Finite(neg, ipt, frt, eneg, edig) ==
    LET d    == ipt \o frt
        sig  == DropTrailingZeros(DropLeadingZeros(d))
        lz   == Len(d) - Len(DropLeadingZeros(d))
        esig == DropLeadingZeros(edig)
        big  == Len(esig) > 4
        eabs == IF big THEN 1 ELSE DigitsToNat(esig)
        e    == IF eneg THEN 0 - eabs ELSE eabs
        x    == Len(ipt) - 1 - lz + e
    IN  CASE sig = <<>> -> FloatVal(neg, <<>>, 0)
          [] sig # <<>> /\ big /\ Len(d) < 9000 ->
                 IF e > 0 THEN InfVal(neg) ELSE FloatVal(neg, <<>>, 0)
          [] sig # <<>> /\ ~big /\ x < 0 - 324 -> FloatVal(neg, <<>>, 0)
          [] sig # <<>> /\ ~big /\ x > 308 -> InfVal(neg)
          [] sig # <<>> /\ ~big /\ x = 308 /\ Len(sig) <= SigDigits ->
                 IF FracLE(sig, MaxDigits) THEN FloatVal(neg, sig, x)
                 ELSE InfVal(neg)
          [] sig # <<>> /\ ~big /\ x >= 0 - 307 /\ x < 308 /\ Len(sig) <= SigDigits ->
                 FloatVal(neg, sig, x)

\* float(value): surrounding whitespace is ignored; then an optional sign and
\* inf, infinity or nan in any case, or a decimal literal: digits with an
\* optional point, an optional exponent (e or E, optional sign, digits), and
\* underscores between digits.  Any other text raises ValueError (ok = FALSE)
\* and add_trait keeps the text.  The decimal digits of other scripts stand
\* for 0..9.
float(value) ==
    LET fail == [ok |-> FALSE, val |-> StrVal(value)]
        \* mantissa and exponent of a decimal literal
        literal(neg, mant, hasexp, ex) ==
            LET dot  == IndexOf(mant, ".")
                ipt  == IF dot = 0 THEN mant ELSE SubSeq(mant, 1, dot - 1)
                frt  == IF dot = 0 THEN <<>> ELSE SubSeq(mant, dot + 1, Len(mant))
                esgn == ex # <<>> /\ ex[1] \in {"+", "-"}
                edig == IF esgn THEN Tail(ex) ELSE ex
            IN  IF /\ AllDigits(ipt)
                   /\ AllDigits(frt)
                   /\ Len(ipt) + Len(frt) > 0
                   /\ hasexp => (edig # <<>> /\ AllDigits(edig))
                THEN [ok |-> TRUE,
                      val |-> Finite(neg, ipt, frt, esgn /\ ex[1] = "-", edig)]
                ELSE fail
        \* the text after the sign, in lower case
        unsigned(neg, low) ==
            LET ei == IndexOf(low, "e") IN
            IF low = <<"i", "n", "f">>
               \/ low = <<"i", "n", "f", "i", "n", "i", "t", "y">>
            THEN [ok |-> TRUE, val |-> InfVal(neg)]
            ELSE IF low = <<"n", "a", "n">> THEN [ok |-> TRUE, val |-> NanVal]
            ELSE literal(neg,
                         IF ei = 0 THEN low ELSE SubSeq(low, 1, ei - 1),
                         ei # 0,
                         IF ei = 0 THEN <<>> ELSE SubSeq(low, ei + 1, Len(low)))
        \* the text without its underscores
        signed(u) ==
            LET sgn == u # <<>> /\ u[1] \in {"+", "-"} IN
            unsigned(sgn /\ u[1] = "-", lowered(IF sgn THEN Tail(u) ELSE u))
        \* the text without the whitespace around it
        stripped(t) ==
            IF UnderscoresOk(t) THEN signed(SelectSeq(t, NotUnderscore)) ELSE fail
    IN  stripped(decimal(strip(value)))

Zeros(n) == [i \in 1..n |-> "0"]

\* repr of a finite float: exponent notation below 1e-4 and from 1e16
FiniteStr(dig, exp) ==
    IF dig = <<>> THEN <<"0", ".", "0">>
    ELSE IF exp < 0 - 4 \/ exp >= 16
    THEN <<dig[1]>>
         \o (IF Len(dig) > 1 THEN <<".">> \o Tail(dig) ELSE <<>>)
         \o <<"e", IF exp < 0 THEN "-" ELSE "+">>
         \o (LET a == IF exp < 0 THEN 0 - exp ELSE exp
             IN  IF a < 10 THEN <<"0">> \o NatToDigits(a) ELSE NatToDigits(a))
    ELSE IF exp < 0
    THEN <<"0", ".">> \o Zeros(0 - exp - 1) \o dig
    ELSE IF Len(dig) <= exp + 1
    THEN dig \o Zeros(exp + 1 - Len(dig)) \o <<".", "0">>
    ELSE SubSeq(dig, 1, exp + 1) \o <<".">> \o SubSeq(dig, exp + 2, Len(dig))

\* str(value) of a stored trait value
str(v) ==
    IF v.tag = "str" THEN v.s
    ELSE IF v.kind = "nan" THEN <<"n", "a", "n">>
    ELSE (IF v.neg THEN <<"-">> ELSE <<>>)
         \o (IF v.kind = "inf" THEN <<"i", "n", "f">> ELSE FiniteStr(v.dig, v.exp))

(***************************************************************************)
(* TraitTableEntry.  The traits dict is a function from trait name to      *)
(* value; <<>> is the empty dict.                                          *)
(***************************************************************************)
EmptyDict == <<>>

DictSet(d, k, v) == [x \in (DOMAIN d) \cup {k} |-> IF x = k THEN v ELSE d[x]]

\* a plausible bug: the duplicate check is missing and the value is overwritten
add_trait_overwrite(traits, trait, value) ==
    LET f == float(value)
    IN  [err |-> "none", traits |-> DictSet(traits, trait, f.val)]

\* TraitTableEntry.add_trait: the exception raised ("none" when it returns)
\* and self.traits after the call
add_trait(traits, trait, value) ==
    IF trait \in DOMAIN traits
    THEN [err |-> "ValueError", traits |-> traits]
    ELSE LET f == float(value)
         IN  [err |-> "none", traits |-> DictSet(traits, trait, f.val)]

\* the keys of a dict as a list (the loop below does not depend on the order)
RECURSIVE KeyList(_)
KeyList(ks) ==
    IF ks = {} THEN <<>>
    ELSE LET k == CHOOSE x \in ks : TRUE IN <<k>> \o KeyList(ks \ {k})

\* a plausible bug: a trait self lacks ends the loop instead of being skipped
RECURSIVE collect_break(_, _, _, _)
collect_break(selfT, otherT, traits, pandas_dict) ==
    IF traits = <<>> THEN pandas_dict
    ELSE LET trait == Head(traits) IN
         IF trait \notin DOMAIN selfT THEN pandas_dict
         ELSE IF trait \notin DOMAIN otherT
         THEN collect_break(selfT, otherT, Tail(traits), pandas_dict)
         ELSE collect_break(selfT, otherT, Tail(traits),
                  DictSet(pandas_dict, trait,
                          [self |-> selfT[trait], other |-> otherT[trait]]))

\* the loop of correlation that fills pandas_dict
RECURSIVE collect(_, _, _, _)
collect(selfT, otherT, traits, pandas_dict) ==
    IF traits = <<>> THEN pandas_dict
    ELSE LET trait == Head(traits) IN
         IF trait \notin DOMAIN selfT
         THEN collect(selfT, otherT, Tail(traits), pandas_dict)
         ELSE IF trait \notin DOMAIN otherT
         THEN collect(selfT, otherT, Tail(traits), pandas_dict)
         ELSE collect(selfT, otherT, Tail(traits),
                  DictSet(pandas_dict, trait,
                          [self |-> selfT[trait], other |-> otherT[trait]]))

\* the traits argument of correlation: None or a list
NoneArg      == [isNone |-> TRUE, list |-> <<>>]
ListArg(l)   == [isNone |-> FALSE, list |-> l]

\* TraitTableEntry.correlation up to the data frame: the exception raised and
\* pandas_dict.  The coefficient is pandas' df.corr(method="spearman") of
\* pandas_dict and is not computed here.
correlation(selfT, otherT, traits) ==
    LET cands == IF traits.isNone THEN KeyList(DOMAIN selfT) ELSE traits.list
        pd    == collect(selfT, otherT, cands, EmptyDict)
    IN  IF DOMAIN pd = {}
        THEN [err |-> "ValueError", pandas_dict |-> pd]
        ELSE [err |-> "none", pandas_dict |-> pd]

(***************************************************************************)
(* TraitTableManager: __init__ and __iter__.                               *)
(***************************************************************************)
Range(q) == {q[i] : i \in DOMAIN q}

\* TraitTableManager.__init__: self.traits, read from the first line
HeaderTraits(f) ==
    LET headers == split(rstrip(f[1]), "\t") IN Tail(headers)

\* a generator local that may not have been assigned yet
Unbound  == [bound |-> FALSE, s |-> <<>>]
Bound(s) == [bound |-> TRUE, s |-> s]

\* the loop `for index, val in enumerate(trait_values.split("\t"))`:
\* self.traits[index] raises IndexError, add_trait raises ValueError
RECURSIVE fill(_, _, _, _)
fill(tte_traits, traits, vals, index) ==
    LET added(r) == IF r.err # "none" THEN r
                    ELSE fill(r.traits, traits, vals, index + 1)
    IN  IF index > Len(vals) THEN [err |-> "none", traits |-> tte_traits]
        ELSE IF index > Len(traits) THEN [err |-> "IndexError", traits |-> tte_traits]
        ELSE added(add_trait(tte_traits, traits[index], vals[index]))

\* One resumption of the generator TraitTableManager.__iter__ whose handle has
\* read c lines and whose locals are name and trait_values: it runs to the next
\* yield, to the end of the file or to the exception that ends it.
RECURSIVE iter_next(_, _, _, _, _)
iter_next(f, traits, c, name, trait_values) ==
    LET \* the loop over the values (r: how it ended) and the yield
        filled(r, name2, vals2) ==
            [res |-> IF r.err # "none" THEN r.err ELSE "yield",
             entry |-> [name |-> name2.s, traits |-> r.traits],
             cur |-> c + 1, name |-> name2, vals |-> vals2]
        \* tte = TraitTableEntry(name) with the locals as they are now
        assigned(name2, vals2) ==
            IF ~name2.bound
            THEN [res |-> "UnboundLocalError",
                  entry |-> [name |-> <<>>, traits |-> EmptyDict],
                  cur |-> c + 1, name |-> name2, vals |-> vals2]
            ELSE filled(fill(EmptyDict, traits, split(vals2.s, "\t"), 1), name2, vals2)
        \* name, trait_values = ...: on ValueError the line is shown and the
        \* locals keep what they had
        row(parts) ==
            assigned(IF Len(parts) = 2 THEN Bound(parts[1]) ELSE name,
                     IF Len(parts) = 2 THEN Bound(parts[2]) ELSE trait_values)
    IN  IF c >= Len(f)
        THEN [res |-> "StopIteration", entry |-> [name |-> <<>>, traits |-> EmptyDict],
              cur |-> c, name |-> name, vals |-> trait_values]
        ELSE IF f[c + 1] = <<>> THEN iter_next(f, traits, c + 1, name, trait_values)
        ELSE row(split1(rstrip(f[c + 1]), "\t"))

\* list(table): the entries of one uninterrupted pass and how it ends
RECURSIVE full_pass(_, _, _, _, _, _)
full_pass(f, traits, c, name, trait_values, acc) ==
    LET next(r) ==
            IF r.res = "yield"
            THEN full_pass(f, traits, r.cur, r.name, r.vals, Append(acc, r.entry))
            ELSE [entries |-> acc,
                  status |-> IF r.res = "StopIteration" THEN "done" ELSE r.res]
    IN  next(iter_next(f, traits, c, name, trait_values))

FullIteration(f, traits) == full_pass(f, traits, 1, Unbound, Unbound, <<>>)

(***************************************************************************)
(* TraitTableManager.get_subset and write_entry.                           *)
(***************************************************************************)
\* a plausible bug: every entry is counted, listed or not
subset_test_countall(e, fnd, names, rem) ==
    LET listed == e.name \in Range(names)
    IN  [yield |-> (listed /\ ~rem) \/ (~listed /\ rem), found |-> fnd + 1]

\* The membership test of get_subset's loop body (from `if entry.name in
\* subset_names`): whether the entry is yielded, and the new value of found.
subset_test(e, fnd, names, rem) ==
    LET listed == e.name \in Range(names)
    IN  IF listed
        THEN IF ~rem THEN [yield |-> TRUE, found |-> fnd + 1]
                     ELSE [yield |-> FALSE, found |-> fnd]
        ELSE IF rem THEN [yield |-> TRUE, found |-> fnd + 1]
                    ELSE [yield |-> FALSE, found |-> fnd]

\* One next() on the generator get_subset returns: it runs from where it is
\* suspended to its next yield, its return, or an exception of __iter__.
\* pd = <<e>> when it is suspended at its first yield with entry e: it resumes
\* at the membership test of the same entry.
RECURSIVE subset_next(_, _, _, _, _, _, _, _, _, _)
subset_next(f, traits, names, rem, c, name, trait_values, sn, fnd, pd) ==
    LET \* the membership test of entry e (t: its outcome), the generator being at
        \* line c2 with locals name2 and vals2 and entries sn2 taken so far
        tested(t, e, c2, name2, vals2, sn2) ==
            IF t.yield
            THEN [res |-> "yield", entry |-> e, cur |-> c2, name |-> name2,
                  vals |-> vals2, seen |-> sn2, found |-> t.found, pend |-> <<>>]
            ELSE subset_next(f, traits, names, rem, c2, name2, vals2, sn2,
                             t.found, <<>>)
        \* `for entry in self` has taken r from __iter__
        taken(r) ==
            IF r.res # "yield"
            THEN [res |-> r.res, entry |-> r.entry, cur |-> r.cur, name |-> r.name,
                  vals |-> r.vals, seen |-> sn, found |-> fnd, pend |-> <<>>]
            ELSE IF fnd = Len(names)
            THEN [res |-> IF rem THEN "yield" ELSE "StopIteration",
                  entry |-> r.entry, cur |-> r.cur, name |-> r.name,
                  vals |-> r.vals, seen |-> Append(sn, r.entry), found |-> fnd,
                  pend |-> IF rem THEN <<r.entry>> ELSE <<>>]
            ELSE tested(subset_test(r.entry, fnd, names, rem), r.entry, r.cur,
                        r.name, r.vals, Append(sn, r.entry))
    IN  IF pd # <<>>
        THEN tested(subset_test(pd[1], fnd, names, rem), pd[1], c, name,
                    trait_values, sn)
        ELSE taken(iter_next(f, traits, c, name, trait_values))

NA == <<"N", "A">>

\* the fields write_entry appends for the traits
RECURSIVE to_write(_, _)
to_write(e, traits) ==
    IF traits = <<>> THEN <<>>
    ELSE <<IF Head(traits) \in DOMAIN e.traits
           THEN str(e.traits[Head(traits)])
           ELSE NA>> \o to_write(e, Tail(traits))

\* TraitTableManager.write_entry: the line written to fh
write_entry(e, traits) ==
    join("\t", <<e.name>> \o to_write(e, traits)) \o <<"\n">>

\* The lines `for line in IN` reads from a text that fh.write wrote: the handle
\* of open(..., 'r') ends a line at "\n", at "\r" and at "\r\n", and gives each
\* of them as "\n"; line is the part of the current line read so far.
RECURSIVE lines_from(_, _)
lines_from(text, line) ==
    IF text = <<>> THEN (IF line = <<>> THEN <<>> ELSE <<line>>)
    ELSE IF text[1] = "\n"
    THEN <<Append(line, "\n")>> \o lines_from(Tail(text), <<>>)
    ELSE IF text[1] = "\r"
    THEN <<Append(line, "\n")>>
         \o lines_from(IF Len(text) > 1 /\ text[2] = "\n"
                       THEN SubSeq(text, 3, Len(text)) ELSE Tail(text), <<>>)
    ELSE lines_from(Tail(text), Append(line, text[1]))

text_lines(text) == lines_from(text, <<>>)

(***************************************************************************)
(* TraitTableManager.get_ordered_traits.                                   *)
(* sorted() is CPython's list.sort on the keys: for fewer than 64 elements *)
(* it finds the leading run and inserts the rest by binary search; a       *)
(* comparison of an int with a str raises TypeError.                       *)
(***************************************************************************)
\* the characters U+0001..U+00FF at the index of their code point plus one;
\* U+0000 and U+0060, which cannot be written in a string of a module, are
\* left out ("" is no character)
Latin1 ==
   <<
      "", "", "", "", "", "", "", "",
      "", "\t", "\n", "", "\f", "\r", "", "",
      "", "", "", "", "", "", "", "",
      "", "", "", "", "", "", "", "",
      " ", "!", "\"", "#", "$", "%", "&", "'",
      "(", ")", "*", "+", ",", "-", ".", "/",
      "0", "1", "2", "3", "4", "5", "6", "7",
      "8", "9", ":", ";", "<", "=", ">", "?",
      "@", "A", "B", "C", "D", "E", "F", "G",
      "H", "I", "J", "K", "L", "M", "N", "O",
      "P", "Q", "R", "S", "T", "U", "V", "W",
      "X", "Y", "Z", "[", "\\", "]", "^", "_",
      "", "a", "b", "c", "d", "e", "f", "g",
      "h", "i", "j", "k", "l", "m", "n", "o",
      "p", "q", "r", "s", "t", "u", "v", "w",
      "x", "y", "z", "{", "|", "}", "~", "",
      "", "", "", "", "", "", "", "",
      "", "", "", "", "", "", "", "",
      "", "", "", "", "", "", "", "",
      "", "", "", "", "", "", "", "",
      " ", "¡", "¢", "£", "¤", "¥", "¦", "§",
      "¨", "©", "ª", "«", "¬", "­", "®", "¯",
      "°", "±", "²", "³", "´", "µ", "¶", "·",
      "¸", "¹", "º", "»", "¼", "½", "¾", "¿",
      "À", "Á", "Â", "Ã", "Ä", "Å", "Æ", "Ç",
      "È", "É", "Ê", "Ë", "Ì", "Í", "Î", "Ï",
      "Ð", "Ñ", "Ò", "Ó", "Ô", "Õ", "Ö", "×",
      "Ø", "Ù", "Ú", "Û", "Ü", "Ý", "Þ", "ß",
      "à", "á", "â", "ã", "ä", "å", "æ", "ç",
      "è", "é", "ê", "ë", "ì", "í", "î", "ï",
      "ð", "ñ", "ò", "ó", "ô", "õ", "ö", "÷",
      "ø", "ù", "ú", "û", "ü", "ý", "þ", "ÿ"
   >>

\* ord(c), which orders the str items of the keys.  It is defined for the
\* characters of Latin1, the digits of DigitRows and U+1680.
ord(c) ==
    IF \E i \in 1..Len(Latin1) : Latin1[i] = c
    THEN (CHOOSE i \in 1..Len(Latin1) : Latin1[i] = c) - 1
    ELSE CASE IsDigit(c) ->
                  DigitBase[CHOOSE r \in 1..Len(DigitRows) :
                               \E i \in 1..10 : DigitRows[r][i] = c] + DigitVal[c]
           [] c = " " -> 5760

\* convert(char): int(char) or, on ValueError, char
convert(char) ==
    IF IsDigit(char) THEN [isInt |-> TRUE, n |-> DigitVal[char], c |-> ""]
    ELSE [isInt |-> FALSE, n |-> 0, c |-> char]

Metadata == <<"m", "e", "t", "a", "d", "a", "t", "a">>

\* nat_sort(entry): the sort key
nat_sort(e, metadata_last_arg) ==
    LET e2 == IF metadata_last_arg /\ startswith(e, Metadata)
              THEN <<"~", "~", "~">> \o Metadata
              ELSE e
    IN  [i \in 1..Len(e2) |-> convert(e2[i])]

\* k1 < k2 for two keys (lists): "lt", "ge" or "TypeError"
lt(k1, k2) ==
    LET m    == IF Len(k1) < Len(k2) THEN Len(k1) ELSE Len(k2)
        diff == {i \in 1..m : k1[i] # k2[i]}
    IN  IF diff = {} THEN (IF Len(k1) < Len(k2) THEN "lt" ELSE "ge")
        ELSE LET i == CHOOSE j \in diff : \A h \in diff : j <= h
                 a == k1[i]
                 b == k2[i]
             IN  IF a.isInt # b.isInt THEN "TypeError"
                 ELSE IF a.isInt THEN (IF a.n < b.n THEN "lt" ELSE "ge")
                 ELSE (IF ord(a.c) < ord(b.c) THEN "lt" ELSE "ge")

\* count_run: the length of the run that starts the list (0: TypeError);
\* the run is descending when keys[2] < keys[1]
RECURSIVE run_end(_, _, _)
run_end(keys, i, desc) ==
    IF i > Len(keys) THEN Len(keys)
    ELSE LET c == lt(keys[i], keys[i - 1]) IN
         IF c = "TypeError" THEN 0
         ELSE IF (c = "lt") = desc THEN run_end(keys, i + 1, desc)
         ELSE i - 1

Reverse(q) == [i \in 1..Len(q) |-> q[Len(q) + 1 - i]]

\* binarysort's search for the place of pivot in order[l..r-1] (0: TypeError)
RECURSIVE bisect(_, _, _, _, _)
bisect(keys, order, pivot, l, r) ==
    IF l >= r THEN l
    ELSE LET p == l + ((r - l) \div 2)
             c == lt(keys[pivot], keys[order[p]])
         IN  IF c = "TypeError" THEN 0
             ELSE IF c = "lt" THEN bisect(keys, order, pivot, l, p)
             ELSE bisect(keys, order, pivot, p + 1, r)

\* binarysort: order[1..start-1] is sorted, the rest is inserted one by one
RECURSIVE binarysort(_, _, _)
binarysort(keys, order, start) ==
    IF start > Len(order) THEN [err |-> "none", order |-> order]
    ELSE LET pivot == order[start]
             pos   == bisect(keys, order, pivot, 1, start)
         IN  IF pos = 0 THEN [err |-> "TypeError", order |-> order]
             ELSE binarysort(keys,
                      SubSeq(order, 1, pos - 1) \o <<pivot>>
                          \o SubSeq(order, pos, start - 1)
                          \o SubSeq(order, start + 1, Len(order)),
                      start + 1)

\* sorted(list, key=...): the order of the indices, or TypeError
sorted(keys) ==
    LET n     == Len(keys)
        ident == [i \in 1..n |-> i]
    IN  IF n < 2 THEN [err |-> "none", order |-> ident]
        ELSE LET c == lt(keys[2], keys[1]) IN
             IF c = "TypeError" THEN [err |-> "TypeError", order |-> ident]
             ELSE LET desc == (c = "lt")
                      run  == run_end(keys, 3, desc)
                  IN  IF run = 0 THEN [err |-> "TypeError", order |-> ident]
                      ELSE binarysort(keys,
                               (IF desc THEN Reverse(SubSeq(ident, 1, run))
                                        ELSE SubSeq(ident, 1, run))
                                   \o SubSeq(ident, run + 1, n),
                               run + 1)

\* TraitTableManager.get_ordered_traits
get_ordered_traits(traits, metadata_last_arg) ==
    LET keys == [i \in 1..Len(traits) |-> nat_sort(traits[i], metadata_last_arg)]
        r    == sorted(keys)
    IN  [called |-> TRUE, err |-> r.err,
         list |-> IF r.err = "none"
                  THEN [i \in 1..Len(traits) |-> traits[r.order[i]]]
                  ELSE <<>>]

(***************************************************************************)
(* The inputs the specifications draw from.                                *)
(***************************************************************************)
H_xy     == <<"#", "n", "\t", "x", "\t", "y", "\n">>    \* header with the traits x and y
H_xx     == <<"n", "\t", "x", "\t", "x", "\n">>    \* header that repeats the trait x
L_a      == <<"a", "\t", "1", "\t", "2", "\n">>    \* a full row
L_b      == <<"b", "\t", "3", "\n">>    \* a row shorter than the header
L_c      == <<"c", "\t", "u", "\n">>    \* a row with a text value
L_blank  == <<"\n">>    \* a blank line
L_notab  == <<"d", "\n">>    \* a line without a tab
L_long   == <<"e", "\t", "1", "\t", "2", "\t", "3", "\n">>    \* a row longer than the header

EntryIds == {"A", "B"}
P        == {1, 2}

TraitPool == {<<"x">>, <<"y">>}
RawPool   == {<<"1">>, <<"1", ".", "0">>, <<"u">>}
\* candidate lists of correlation: z is a trait no entry has
CandPool  == {<<"x">>, <<"y">>, <<"z">>}
NamePool  == {<<"a">>, <<"b">>, <<"z">>}

SeqsUpTo(S, n) == UNION {[1..k -> S] : k \in 0..n}

IterLines   == {L_a, L_b, L_blank, L_notab, L_long}
SubsetLines == {L_a, L_b, L_c, L_notab}

FilesOf(headers, lines) ==
    {<<h>> \o body : h \in headers, body \in SeqsUpTo(lines, MaxLines)}

NoCall == [op |-> "none", recv |-> "A", other |-> "A", trait |-> <<>>,
           value |-> <<>>, traits |-> NoneArg, err |-> "none",
           pandas_dict |-> EmptyDict]

NotCalled == [called |-> FALSE, err |-> "none", list |-> <<>>]

NoEntry == [name |-> <<>>, traits |-> EmptyDict]

IdleEntry ==
    /\ entries = [e \in EntryIds |-> EmptyDict]
    /\ last = NoCall
    /\ adds = 0

IdlePasses ==
    /\ cur = [p \in P |-> 1]
    /\ lname = [p \in P |-> Unbound]
    /\ lvals = [p \in P |-> Unbound]
    /\ seen = [p \in P |-> <<>>]
    /\ out = [p \in P |-> <<>>]
    /\ found = [p \in P |-> 0]
    /\ pend = [p \in P |-> <<>>]

IdleSort ==
    /\ metadata_last = TRUE
    /\ ordered = NotCalled

IdleWrite ==
    /\ entry = NoEntry
    /\ written = 0

(***************************************************************************)
(* Actions.                                                                *)
(***************************************************************************)
\* entry.add_trait(trait, value)
AddTrait(e, trait, value) ==
    /\ adds < MaxAdds
    /\ \E r \in {add_trait(entries[e], trait, value)} :
       /\ entries' = [entries EXCEPT ![e] = r.traits]
       /\ last' = [op |-> "add_trait", recv |-> e, other |-> e, trait |-> trait,
                   value |-> value, traits |-> NoneArg, err |-> r.err,
                   pandas_dict |-> EmptyDict]
    /\ adds' = adds + 1
    /\ UNCHANGED <<tableVars, passVars, argVars, sortVars, writeVars>>

\* entries[e].correlation(entries[o], traits)
Correlation(e, o, traits) ==
    /\ LET r == correlation(entries[e], entries[o], traits) IN
       last' = [op |-> "correlation", recv |-> e, other |-> o, trait |-> <<>>,
                value |-> <<>>, traits |-> traits, err |-> r.err,
                pandas_dict |-> r.pandas_dict]
    /\ UNCHANGED <<entries, adds, tableVars, passVars, argVars, sortVars, writeVars>>

\* a plausible bug: one handle, opened once, shared by every pass
handle_shared(p) == 1

\* the file handle a pass reads: `with open(...) as IN` in __iter__ opens a
\* handle of its own for every pass
handle(p) == p

\* the consumer of `for entry in table` takes the next entry
IterStep(p) ==
    /\ kind[p] = "iter"
    /\ status[p] = "running"
    /\ \E r \in {iter_next(file, self_traits, cur[handle(p)], lname[p], lvals[p])} :
       /\ cur' = [cur EXCEPT ![handle(p)] = r.cur]
       /\ lname' = [lname EXCEPT ![p] = r.name]
       /\ lvals' = [lvals EXCEPT ![p] = r.vals]
       /\ seen' = [seen EXCEPT ![p] = IF r.res = "yield" THEN Append(@, r.entry) ELSE @]
       /\ out' = [out EXCEPT ![p] = IF r.res = "yield" THEN Append(@, r.entry) ELSE @]
       /\ status' = [status EXCEPT ![p] =
                        IF r.res = "yield" THEN "running"
                        ELSE IF r.res = "StopIteration" THEN "done"
                        ELSE r.res]
    /\ UNCHANGED <<found, pend, entryVars, tableVars, argVars, sortVars, writeVars>>

\* the consumer of table.get_subset(subset_names, remove) takes the next entry
SubsetStep(p) ==
    /\ kind[p] = "subset"
    /\ status[p] = "running"
    /\ \E r \in {subset_next(file, self_traits, subset_names, remove,
                             cur[handle(p)], lname[p], lvals[p], seen[p],
                             found[p], pend[p])} :
       /\ cur' = [cur EXCEPT ![handle(p)] = r.cur]
       /\ lname' = [lname EXCEPT ![p] = r.name]
       /\ lvals' = [lvals EXCEPT ![p] = r.vals]
       /\ seen' = [seen EXCEPT ![p] = r.seen]
       /\ out' = [out EXCEPT ![p] = IF r.res = "yield" THEN Append(@, r.entry) ELSE @]
       /\ found' = [found EXCEPT ![p] = r.found]
       /\ pend' = [pend EXCEPT ![p] = r.pend]
       /\ status' = [status EXCEPT ![p] =
                        IF r.res = "yield" THEN "running"
                        ELSE IF r.res = "StopIteration" THEN "done"
                        ELSE r.res]
    /\ UNCHANGED <<entryVars, tableVars, argVars, sortVars, writeVars>>

\* table.get_ordered_traits(metadata_last)
GetOrderedTraits ==
    /\ ~ordered.called
    /\ ordered' = get_ordered_traits(self_traits, metadata_last)
    /\ UNCHANGED <<metadata_last, entryVars, tableVars, passVars, argVars, writeVars>>

\* TraitTableManager.write_entry(entry, fh, self.traits), fh appending to the
\* file: the text written is read back as the lines it holds
WriteEntry ==
    /\ written = 0
    /\ file' = file \o text_lines(write_entry(entry, self_traits))
    /\ written' = written + 1
    /\ UNCHANGED <<entry, self_traits, entryVars, passVars, argVars, sortVars>>

\* the written file is read back by a pass of the table
ReadBack == written = 1 /\ IterStep(1)

(***************************************************************************)
(* Specifications.                                                         *)
(***************************************************************************)
N_trait1     == <<"t", "r", "a", "i", "t", "1">>
N_trait2     == <<"t", "r", "a", "i", "t", "2">>
N_trait10    == <<"t", "r", "a", "i", "t", "1", "0">>
N_metadata_a == <<"m", "e", "t", "a", "d", "a", "t", "a", "_", "a">>
N_metadata_b == <<"m", "e", "t", "a", "d", "a", "t", "a", "_", "b">>
N_a1         == <<"a", "1">>
N_ab         == <<"a", "b">>

SortNames == {N_trait1, N_trait2, N_trait10, N_metadata_a, N_metadata_b, N_a1, N_ab}

\* a header line with the given trait names
HeaderLine(traits) == join("\t", <<<<"#", "n">>>> \o traits) \o <<"\n">>

\* the traits that add_trait builds from raw values
RECURSIVE BuildTraits(_, _)
BuildTraits(raw, ks) ==
    IF ks = <<>> THEN EmptyDict
    ELSE add_trait(BuildTraits(raw, Tail(ks)), Head(ks), raw[Head(ks)]).traits

TraitArgs == {NoneArg} \cup {ListArg(l) : l \in SeqsUpTo(CandPool, MaxCands)}

\* SpecEntry: two entries are filled by add_trait and correlated
InitEntry ==
    /\ IdleEntry
    /\ file = <<H_xy>>
    /\ self_traits = HeaderTraits(file)
    /\ IdlePasses
    /\ status = [p \in P |-> "done"]
    /\ kind = [p \in P |-> "off"]
    /\ subset_names = <<>>
    /\ remove = FALSE
    /\ IdleSort
    /\ IdleWrite

NextEntry == \E e \in EntryIds, t \in TraitPool, v \in RawPool : AddTrait(e, t, v)

SpecEntry == InitEntry /\ [][NextEntry]_vars

\* SpecCorr: two entries that add_trait has filled are correlated
FilledTraits ==
    {BuildTraits(raw, KeyList(DOMAIN raw)) :
        raw \in UNION {[D -> RawPool] : D \in SUBSET TraitPool}}

InitCorr ==
    /\ entries \in [EntryIds -> FilledTraits]
    /\ last = NoCall
    /\ adds = Cardinality(DOMAIN entries["A"]) + Cardinality(DOMAIN entries["B"])
    /\ file = <<H_xy>>
    /\ self_traits = HeaderTraits(file)
    /\ IdlePasses
    /\ status = [p \in P |-> "done"]
    /\ kind = [p \in P |-> "off"]
    /\ subset_names = <<>>
    /\ remove = FALSE
    /\ IdleSort
    /\ IdleWrite

NextCorr == \E e \in EntryIds, o \in EntryIds, a \in TraitArgs : Correlation(e, o, a)

SpecCorr == InitCorr /\ [][NextCorr]_vars

\* SpecIter: two passes over one table, their steps interleaved; the second
\* pass is a plain pass or a get_subset
InitIter ==
    /\ IdleEntry
    /\ file \in FilesOf({H_xy, H_xx}, IterLines)
    /\ self_traits = HeaderTraits(file)
    /\ IdlePasses
    /\ status = [p \in P |-> "running"]
    /\ \E k \in {"iter", "subset"} :
          /\ kind = (1 :> "iter") @@ (2 :> k)
          /\ subset_names = IF k = "subset" THEN <<<<"a">>>> ELSE <<>>
          /\ remove \in (IF k = "subset" THEN BOOLEAN ELSE {FALSE})
    /\ IdleSort
    /\ IdleWrite

NextIter == \E p \in P : IterStep(p) \/ SubsetStep(p)

SpecIter == InitIter /\ [][NextIter]_vars

\* SpecSubset: one get_subset over a table
InitSubset ==
    /\ IdleEntry
    /\ file \in FilesOf({H_xy}, SubsetLines)
    /\ self_traits = HeaderTraits(file)
    /\ IdlePasses
    /\ status = (1 :> "running") @@ (2 :> "done")
    /\ kind = (1 :> "subset") @@ (2 :> "off")
    /\ subset_names \in SeqsUpTo(NamePool, MaxSubset)
    /\ remove \in BOOLEAN
    /\ IdleSort
    /\ IdleWrite

NextSubset == SubsetStep(1)

SpecSubset == InitSubset /\ [][NextSubset]_vars

\* SpecSort: get_ordered_traits on a table with the given header
InitSort ==
    /\ IdleEntry
    /\ \E ts \in SeqsUpTo(SortNames, MaxTraits) : file = <<HeaderLine(ts)>>
    /\ self_traits = HeaderTraits(file)
    /\ IdlePasses
    /\ status = [p \in P |-> "done"]
    /\ kind = [p \in P |-> "off"]
    /\ subset_names = <<>>
    /\ remove = FALSE
    /\ metadata_last \in BOOLEAN
    /\ ordered = NotCalled
    /\ IdleWrite

NextSort == GetOrderedTraits

SpecSort == InitSort /\ [][NextSort]_vars

\* SpecRound: an entry is written by write_entry under a header and read back
RoundNames  == {<<"e">>, <<>>, <<"e", "\r", "f">>}
RoundRaw    == {<<"1">>, <<"u">>, <<>>, <<" ">>, <<"1", "e", "-", "5">>,
                <<"۱", " ">>, <<"1", "\n", "2">>}
RoundOrders == {<<>>, <<<<"x">>>>, <<<<"y">>>>, <<<<"x">>, <<"y">>>>, <<<<"y">>, <<"x">>>>}

RoundEntries ==
    {[name |-> n, traits |-> BuildTraits(raw, KeyList(DOMAIN raw))] :
        n \in RoundNames,
        raw \in UNION {[D -> RoundRaw] : D \in SUBSET TraitPool}}

InitRound ==
    /\ IdleEntry
    /\ \E ts \in RoundOrders : file = <<HeaderLine(ts)>>
    /\ self_traits = HeaderTraits(file)
    /\ IdlePasses
    /\ status = (1 :> "running") @@ (2 :> "done")
    /\ kind = (1 :> "iter") @@ (2 :> "off")
    /\ subset_names = <<>>
    /\ remove = FALSE
    /\ IdleSort
    /\ entry \in RoundEntries
    /\ written = 0

NextRound == WriteEntry \/ ReadBack

SpecRound == InitRound /\ [][NextRound]_vars

Spec == SpecIter

(***************************************************************************)
(* Properties.                                                             *)
(***************************************************************************)
IsPrefix(a, b) == Len(a) <= Len(b) /\ SubSeq(b, 1, Len(a)) = a

Names(es) == [i \in 1..Len(es) |-> es[i].name]

DistinctNames(es) == \A i, j \in 1..Len(es) : es[i].name = es[j].name => i = j

Listed(e) == e.name \in Range(subset_names)

NotListed(e) == e.name \notin Range(subset_names)

Count(q, x) == Cardinality({i \in 1..Len(q) : q[i] = x})

IsPermutation(a, b) ==
    /\ Len(a) = Len(b)
    /\ \A x \in Range(a) \cup Range(b) : Count(a, x) = Count(b, x)

\* C1: when the entry names of the table are distinct, a finished
\* get_subset(subset_names, remove=True) has yielded exactly the entries of a
\* full iteration whose name is not in subset_names, each once, in file order.
C1_RemoveYieldsUnlisted ==
    \A p \in P :
        (/\ kind[p] = "subset"
         /\ remove
         /\ status[p] # "running"
         /\ DistinctNames(FullIteration(file, self_traits).entries))
        => out[p] = SelectSeq(FullIteration(file, self_traits).entries, NotListed)

\* C2: when the entry names of the table are distinct, a finished
\* get_subset(subset_names, remove=False) has yielded exactly the entries of a
\* full iteration whose name is in subset_names, each once, in file order; in
\* particular the early stop at found = len(subset_names) drops no listed entry.
C2_KeepYieldsListed ==
    \A p \in P :
        (/\ kind[p] = "subset"
         /\ ~remove
         /\ status[p] # "running"
         /\ DistinctNames(FullIteration(file, self_traits).entries))
        => out[p] = SelectSeq(FullIteration(file, self_traits).entries, Listed)

\* the early stop was taken before the end of a file with distinct names, after
\* a listed entry was yielded and with an unread line left
C2_Witness ==
    /\ kind[1] = "subset"
    /\ ~remove
    /\ status[1] = "done"
    /\ cur[1] < Len(file)
    /\ Len(out[1]) >= 1
    /\ Len(FullIteration(file, self_traits).entries) = Len(file) - 1
    /\ DistinctNames(FullIteration(file, self_traits).entries)

\* The natural-sort reading of a name: maximal runs of digits, as numbers, and
\* maximal runs of other characters.
RECURSIVE RunLen(_, _)
RunLen(s, digits) ==
    IF s # <<>> /\ IsDigit(s[1]) = digits THEN 1 + RunLen(Tail(s), digits) ELSE 0

RECURSIVE Runs(_)
Runs(s) ==
    IF s = <<>> THEN <<>>
    ELSE LET d == IsDigit(s[1])
             k == RunLen(s, d)
             r == SubSeq(s, 1, k)
         IN  <<[isInt |-> d, n |-> IF d THEN DigitsToNat(r) ELSE 0,
                c |-> IF d THEN <<>> ELSE r]>> \o Runs(SubSeq(s, k + 1, Len(s)))

\* a and b differ only in one embedded number, and a's is the smaller
SmallerNumber(a, b) ==
    LET ra == Runs(a)
        rb == Runs(b)
    IN  /\ Len(ra) = Len(rb)
        /\ \E i \in 1..Len(ra) :
              /\ ra[i].isInt /\ rb[i].isInt /\ ra[i].n < rb[i].n
              /\ \A j \in 1..Len(ra) : j # i => ra[j] = rb[j]

\* C3: get_ordered_traits returns a permutation of the header's trait names in
\* which, of two names that differ only in an embedded number, the one with
\* the smaller number comes first.
C3_NaturalSort ==
    ordered.called =>
        /\ ordered.err = "none"
        /\ IsPermutation(ordered.list, self_traits)
        /\ \A i, j \in 1..Len(ordered.list) :
              SmallerNumber(ordered.list[i], ordered.list[j]) => i < j

\* text runs compared as strings
RECURSIVE TextLess(_, _)
TextLess(x, y) ==
    IF y = <<>> THEN FALSE
    ELSE IF x = <<>> THEN TRUE
    ELSE IF x[1] # y[1] THEN ord(x[1]) < ord(y[1])
    ELSE TextLess(Tail(x), Tail(y))

\* a sorts strictly before b in natural order (runs of different kinds at the
\* first difference are left unordered)
RECURSIVE RunsLess(_, _)
RunsLess(ra, rb) ==
    IF rb = <<>> THEN FALSE
    ELSE IF ra = <<>> THEN TRUE
    ELSE IF ra[1] = rb[1] THEN RunsLess(Tail(ra), Tail(rb))
    ELSE IF ra[1].isInt # rb[1].isInt THEN FALSE
    ELSE IF ra[1].isInt THEN ra[1].n < rb[1].n
    ELSE TextLess(ra[1].c, rb[1].c)

NaturalLess(a, b) == RunsLess(Runs(a), Runs(b))

IsMeta(t) == startswith(t, Metadata)

\* C4: with metadata_last, get_ordered_traits returns the header's names with
\* every name that starts with "metadata" after every name that does not, and
\* the metadata names in natural order among themselves.
C4_MetadataLast ==
    (ordered.called /\ metadata_last) =>
        /\ ordered.err = "none"
        /\ IsPermutation(ordered.list, self_traits)
        /\ \A i, j \in 1..Len(ordered.list) :
              (i < j) =>
                 /\ ~(IsMeta(ordered.list[i]) /\ ~IsMeta(ordered.list[j]))
                 /\ (IsMeta(ordered.list[i]) /\ IsMeta(ordered.list[j]))
                       => ~NaturalLess(ordered.list[j], ordered.list[i])

\* what reading back the written row should give: the entry's name, its value
\* for every trait of the order it has, and the text NA for the others
ReadBackOf(e, order) ==
    [name |-> e.name,
     traits |-> [t \in Range(order) |->
                    IF t \in DOMAIN e.traits THEN e.traits[t] ELSE StrVal(NA)]]

\* C5: the row write_entry wrote, read back by a pass under the same header,
\* yields exactly one entry, equal to the written one (NA for absent traits).
C5_RoundTrip ==
    (written = 1 /\ status[1] # "running") =>
        /\ status[1] = "done"
        /\ out[1] = <<ReadBackOf(entry, self_traits)>>

\* C6: an add_trait call for a trait the entry already has raises ValueError
\* and changes no entry; no step changes or removes a value already stored.
C6_DuplicateRejected ==
    [][\A e \in EntryIds : \A t \in DOMAIN entries[e] :
          /\ t \in DOMAIN entries'[e]
          /\ entries'[e][t] = entries[e][t]
          /\ (adds' = adds + 1 /\ last'.recv = e /\ last'.trait = t)
                => (last'.err = "ValueError" /\ entries' = entries)]_vars

\* add_trait was refused for a trait whose stored value differs from the new one
C6_Witness ==
    /\ last.op = "add_trait"
    /\ last.err = "ValueError"
    /\ last.trait \in DOMAIN entries[last.recv]
    /\ entries[last.recv][last.trait] # float(last.value).val

\* C7: whatever the interleaving of two passes, each pass yields a prefix of
\* what one uninterrupted pass yields, a plain pass that has ended has yielded
\* all of it and ended the same way, and self.traits is what the header says.
C7_RestartIndependence ==
    /\ self_traits = HeaderTraits(file)
    /\ \A p \in P :
          /\ IsPrefix(seen[p], FullIteration(file, self_traits).entries)
          /\ (kind[p] = "iter" /\ status[p] # "running") =>
                /\ out[p] = FullIteration(file, self_traits).entries
                /\ status[p] = FullIteration(file, self_traits).status

\* both passes are under way at different lines, the second one a get_subset
C7_Witness ==
    /\ kind[2] = "subset"
    /\ status[1] = "running" /\ status[2] = "running"
    /\ cur[1] > 1 /\ cur[2] > cur[1]
    /\ Len(seen[1]) >= 1

\* C8: correlation computes over exactly the candidates both entries have a
\* value for, raises ValueError exactly when there is none, and for an explicit
\* list the shared traits are the same with the two entries exchanged.
C8_SharedTraits ==
    last.op = "correlation" =>
        LET selfT  == entries[last.recv]
            otherT == entries[last.other]
            cands  == IF last.traits.isNone THEN DOMAIN selfT
                      ELSE Range(last.traits.list)
            shared == {t \in cands : t \in DOMAIN selfT /\ t \in DOMAIN otherT}
        IN  /\ DOMAIN last.pandas_dict = shared
            /\ \A t \in shared :
                  last.pandas_dict[t] = [self |-> selfT[t], other |-> otherT[t]]
            /\ (last.err = "ValueError") <=> (shared = {})
            /\ ~last.traits.isNone =>
                  DOMAIN correlation(otherT, selfT, last.traits).pandas_dict = shared

\* two entries that both have traits but none in common were correlated
C8_Witness ==
    /\ last.op = "correlation"
    /\ last.err = "ValueError"
    /\ ~last.traits.isNone
    /\ DOMAIN entries[last.recv] # {}
    /\ DOMAIN entries[last.other] # {}
    /\ DOMAIN entries[last.recv] \cap DOMAIN entries[last.other] = {}

HasTab(line) == IndexOf(line, "\t") # 0

RECURSIVE TabLineNames(_)
TabLineNames(lines) ==
    IF lines = <<>> THEN <<>>
    ELSE (IF HasTab(Head(lines))
          THEN <<SubSeq(Head(lines), 1, IndexOf(Head(lines), "\t") - 1)>>
          ELSE <<>>) \o TabLineNames(Tail(lines))

\* C9: a pass is not ended by a line without a tab, and has yielded one entry
\* for each line with a tab among the data lines it has read, and no other.
C9_OnlyTabLinesYield ==
    \A p \in P :
        (kind[p] = "iter" /\ status[p] \notin {"ValueError", "IndexError"}) =>
            /\ status[p] # "UnboundLocalError"
            /\ Names(out[p]) = TabLineNames(SubSeq(file, 2, cur[p]))

\* a data line read on its own: split at the first tab, values added in order
RowSplits(line) == Len(split1(rstrip(line), "\t")) = 2

RowFill(line) ==
    fill(EmptyDict, self_traits, split(split1(rstrip(line), "\t")[2], "\t"), 1)

DupRow(line)  == RowSplits(line) /\ RowFill(line).err = "ValueError"

GoodRow(line) == RowSplits(line) /\ RowFill(line).err = "none"

RECURSIVE GoodRowNames(_)
GoodRowNames(lines) ==
    IF lines = <<>> THEN <<>>
    ELSE (IF GoodRow(Head(lines))
          THEN <<split1(rstrip(Head(lines)), "\t")[1]>>
          ELSE <<>>) \o GoodRowNames(Tail(lines))

\* C10: in a table whose rows are well formed or fail with the
\* duplicate-trait error, the error does not end a pass, and a pass that has
\* ended has yielded every well-formed row.
C10_DuplicateRowSkipped ==
    \A p \in P :
        (/\ kind[p] = "iter"
         /\ \A i \in 2..Len(file) : GoodRow(file[i]) \/ DupRow(file[i]))
        => /\ status[p] # "ValueError"
           /\ status[p] = "done" => Names(out[p]) = GoodRowNames(Tail(file))

====
